---- MODULE Spec2Model ----
(***************************************************************************)
(* State-machine model of the user-management service: the Mongoose user   *)
(* model (schema setters, pre-save hash hook, comparePassword), the        *)
(* UserService (createUser, loginUser, updateUser, deleteUser,             *)
(* changePassword, generateTokens, verifyToken), the authenticate and      *)
(* validate middlewares, the controllers and the global error handler.     *)
(*                                                                         *)
(* Strings that the code transforms (emails, usernames, passwords) are     *)
(* sequences of code points; strings that the code only compares           *)
(* (messages, roles, secrets) are TLA+ strings.                            *)
(***************************************************************************)
EXTENDS Integers, Sequences, FiniteSets, TLC

VARIABLES
    users,    \* the users collection: users[i] is the document whose _id is i
    cfg,      \* the validated environment (config/env)
    issued,   \* tokens that were returned to callers
    resp,     \* the response of the last request, with the request it answers
    plain,    \* history: plain[i] is the plaintext last given for document i
              \* by createUser or by a successful changePassword
    reqs,     \* the number of requests handled so far
    calls,    \* the createUser calls that passed their checks and have not written yet
    storeFailsAt  \* 0, or the write of a request from which on the store fails

vars == <<users, cfg, issued, resp, plain, reqs, calls, storeFailsAt>>

(***************************************************************************)
(* Strings                                                                 *)
(***************************************************************************)
Rep(c, n) == [i \in 1..n |-> c]

\* String.prototype.toLowerCase on the ASCII letters
ToLower(s) == [i \in DOMAIN s |-> IF s[i] >= 65 /\ s[i] <= 90 THEN s[i] + 32 ELSE s[i]]

\* UTF-8 encoding of one code point (below U+0800: one or two bytes)
Utf8Char(cp) ==
    IF cp < 128 THEN <<cp>>
    ELSE <<192 + (cp \div 64), 128 + (cp % 64)>>

RECURSIVE Utf8(_)
Utf8(s) ==
    IF s = <<>> THEN <<>>
    ELSE IF Len(s) = 1 THEN Utf8Char(s[1])
    ELSE Utf8(SubSeq(s, 1, Len(s) \div 2)) \o Utf8(SubSeq(s, Len(s) \div 2 + 1, Len(s)))

(***************************************************************************)
(* Inputs                                                                  *)
(***************************************************************************)
EmailA   == <<97, 64, 120, 46, 99, 111>>    \* "a@x.co"
EmailAUp == <<65, 64, 88, 46, 67, 79>>      \* "A@X.CO"
EmailB   == <<98, 64, 120, 46, 99, 111>>    \* "b@x.co"
Emails   == {EmailA, EmailAUp, EmailB}

NoName    == <<>>                  \* no username in the body
NameU     == <<117, 115, 114>>     \* "usr"
Usernames == {NoName, NameU}

PASSWORD_MIN == 8
PASSWORD_MAX == 128
BCRYPT_KEY_BYTES == 72

\* code points: 97 "a", 98 "b", 99 "c", 233 "e" with an acute accent
PwShort == Rep(233, PASSWORD_MIN)                       \* the shortest the schemas take, not ASCII
PwLongB == Rep(97, PASSWORD_MAX - 1) \o <<98>>          \* the longest: 127 x "a" then "b"
PwLongC == Rep(97, PASSWORD_MAX - 1) \o <<99>>          \* the longest: 127 x "a" then "c"

PwTiny  == Rep(97, 3)                                   \* "aaa": refused by the schemas
Junk60  == Rep(120, 60)                                 \* 60 x "x": long as a bcrypt string

Passwords == {PwShort, PwLongB, PwLongC}

Secrets == {"s1", "s2"}            \* values of JWT_SECRET and JWT_REFRESH_SECRET
Envs    == {"development", "production"}
Roles   == {"student", "instructor", "admin"}

MaxRequests == 3                   \* requests in a run of the model

(***************************************************************************)
(* bcryptjs                                                                *)
(***************************************************************************)
\* A string held in the password path: a plain text, or a bcrypt string
\* "$2a$<rounds>$<salt><digest>" given by its salt and by the key it digests.
Raw(s) == [kind |-> "raw", text |-> s, salt |-> 0, key |-> <<>>]

StringOf(v) ==
    IF v.kind = "raw" THEN v.text
    ELSE <<36, 50, 97, 36, 48 + v.salt>> \o v.key

StrLen(v) == IF v.kind = "raw" THEN Len(v.text) ELSE 60

\* The Blowfish key schedule reads the NUL-terminated UTF-8 bytes of the
\* password cyclically, 18 words of 4 bytes: 72 bytes and no more.
KeyStream(bytes) ==
    [i \in 1..BCRYPT_KEY_BYTES |-> bytes[((i - 1) % Len(bytes)) + 1]]

bcryptKey(s) == KeyStream(Utf8(s) \o <<0>>)

PasswordKeys == [p \in Passwords |-> bcryptKey(p)]

bcryptHash(s, salt) ==
    [kind |-> "bcrypt", text |-> <<>>, salt |-> salt,
     key  |-> IF s \in Passwords THEN PasswordKeys[s] ELSE bcryptKey(s)]

\* bcrypt.compare: "true", "false", or "error" (the promise is rejected)
bcryptCompare(s, hash) ==
    IF StrLen(hash) # 60 THEN "false"
    ELSE IF hash.kind # "bcrypt" THEN "error"
    ELSE IF bcryptHash(s, hash.salt) = hash THEN "true" ELSE "false"

(***************************************************************************)
(* jsonwebtoken                                                            *)
(***************************************************************************)
\* A token: its claims, the secret that signed it (sig) and whether its
\* expiry is still to come (exp). sig "?" marks a string that is no JWT.
NoToken   == [id |-> 0, email |-> <<>>, role |-> "", sig |-> "", exp |-> ""]
Foreign   == [id |-> 0, email |-> <<>>, role |-> "", sig |-> "x", exp |-> "later"]   \* a string no secret of the service signed
Malformed == [id |-> 0, email |-> <<>>, role |-> "", sig |-> "?", exp |-> ""]

jwtSign(payload, secret) ==
    [id |-> payload.id, email |-> payload.email, role |-> payload.role,
     sig |-> secret, exp |-> "later"]

\* the same token once its expiry has passed
Expired(token) == [token EXCEPT !.exp = "past"]

\* the message of the error jwt.verify throws, "" when it returns the claims
jwtVerifyError(token, secret) ==
    IF token.sig \in {"", "?"} THEN "jwt malformed"
    ELSE IF token.sig # secret THEN "invalid signature"
    ELSE IF token.exp = "past" THEN "jwt expired"
    ELSE ""

jwtVerify(token, secret) == jwtVerifyError(token, secret) = ""

(***************************************************************************)
(* Errors and the global error handler                                     *)
(***************************************************************************)
\* site: where the error object was made (the first frame of its stack)
AppError(message, statusCode, site) ==
    [name |-> "Error", message |-> message, statusCode |-> statusCode,
     code |-> 0, keyField |-> "", details |-> FALSE, site |-> site]

DuplicateKeyError(field) ==
    [name |-> "MongoServerError", message |-> "E11000 duplicate key error",
     statusCode |-> 0, code |-> 11000, keyField |-> field, details |-> FALSE, site |-> "mongoose"]

MongooseValidationError(message) ==
    [name |-> "ValidationError", message |-> message, statusCode |-> 0,
     code |-> 0, keyField |-> "", details |-> FALSE, site |-> "mongoose"]

BcryptError ==
    [name |-> "Error", message |-> "Invalid salt version", statusCode |-> 0,
     code |-> 0, keyField |-> "", details |-> FALSE, site |-> "bcryptjs"]

\* what the driver rejects a write with when it cannot reach the store
StorageError ==
    [name |-> "MongoNetworkError", message |-> "connection timed out", statusCode |-> 0,
     code |-> 0, keyField |-> "", details |-> FALSE, site |-> "mongodb"]

NoError == AppError("", 0, "")

NoPersisted == [exists |-> FALSE, id |-> 0, email |-> <<>>, role |-> "", hashed |-> FALSE]
NoReq == [email |-> <<>>, password |-> <<>>, newPassword |-> <<>>, userId |-> 0,
          scheme |-> "", role |-> "", username |-> <<>>]

\* errorHandler without its branch for err.code === 11000
errorHandler_NoDuplicateKey(err) ==
    LET error == IF err.name = "ValidationError" THEN AppError(err.message, 400, "errorHandler.js:95") ELSE err
    IN  [status  |-> IF error.statusCode # 0 THEN error.statusCode ELSE 500,
         success |-> FALSE,
         error   |-> IF error.message # "" THEN error.message ELSE "Internal Server Error",
         stack   |-> IF cfg.env = "development" THEN err.site ELSE "",
         details |-> error.details]

\* errorHandler(err, req, res, next): the JSON body and the status it sends
errorHandler(err) ==
    LET e1 == IF err.name = "CastError" THEN AppError("Resource not found", 404, "errorHandler.js:80") ELSE err
        e2 == IF err.code = 11000
                  THEN AppError(IF err.keyField = "email" THEN "email already exists"
                                ELSE "username already exists", 409, "errorHandler.js:88")
                  ELSE e1
        error == IF err.name = "ValidationError" THEN AppError(err.message, 400, "errorHandler.js:95") ELSE e2
        statusCode == IF error.statusCode # 0 THEN error.statusCode ELSE 500
        message == IF error.message # "" THEN error.message ELSE "Internal Server Error"
    IN  [status  |-> statusCode,
         success |-> FALSE,
         error   |-> message,
         stack   |-> IF cfg.env = "development" THEN err.site ELSE "",
         details |-> error.details]

(***************************************************************************)
(* The user model (Mongoose schema, indexes, hooks, methods)               *)
(***************************************************************************)
\* new User(userData): the schema's setters (lowercase) and defaults; a field
\* of the body that the schema knows is taken as given
NewUser(id, userData) ==
    [id            |-> id,
     email         |-> ToLower(userData.email),
     username      |-> ToLower(userData.username),
     password      |-> Raw(userData.password),
     role          |-> userData.role,
     isActive      |-> userData.isActive,
     lastLogin     |-> 0,
     refreshTokens |-> userData.refreshTokens]

\* a collection without unique indexes
DuplicateKey_NoIndex(db, doc) == ""

\* a collection whose only unique index is the one on email
DuplicateKey_EmailOnly(db, doc) ==
    IF \E j \in DOMAIN db : j # doc.id /\ db[j].email = doc.email THEN "email" ELSE ""

\* the unique indexes: email, and username where a document has one (sparse)
DuplicateKey(db, doc) ==
    IF \E j \in DOMAIN db : j # doc.id /\ db[j].email = doc.email THEN "email"
    ELSE IF doc.username # NoName
            /\ \E j \in DOMAIN db : j # doc.id /\ db[j].username = doc.username
         THEN "username"
    ELSE ""

\* a pre('save') hook without its isModified('password') test
preSave_Always(doc, modified, salt) ==
    [doc EXCEPT !.password = bcryptHash(StringOf(doc.password), salt)]

\* userSchema.pre('save'): hash the password only when it was modified
preSave(doc, modified, salt) ==
    IF "password" \notin modified THEN doc
    ELSE [doc EXCEPT !.password = bcryptHash(StringOf(doc.password), salt)]

\* doc.save(), the nth write of its request: the hook, then an insert or an
\* update of the modified paths, those the hook assigned included
save(db, doc, modified0, salt, nth) ==
    LET hashed   == preSave(doc, modified0, salt)
        modified == modified0 \cup {f \in DOMAIN doc : hashed[f] # doc[f]}
        dup      == DuplicateKey(db, hashed)
    IN  IF storeFailsAt # 0 /\ nth >= storeFailsAt
        THEN [ok |-> FALSE, db |-> db, doc |-> doc, err |-> StorageError]
        ELSE IF dup # "" /\ (doc.id \notin DOMAIN db \/ modified \cap {"email", "username"} # {})
        THEN [ok |-> FALSE, db |-> db, doc |-> doc, err |-> DuplicateKeyError(dup)]
        ELSE IF doc.id \notin DOMAIN db
        THEN [ok |-> TRUE, db |-> Append(db, hashed), doc |-> hashed, err |-> NoError]
        ELSE [ok  |-> TRUE,
              db  |-> [db EXCEPT ![doc.id] =
                          [f \in DOMAIN db[doc.id] |->
                              IF f \in modified THEN hashed[f] ELSE db[doc.id][f]]],
              doc |-> hashed,
              err |-> NoError]

\* userSchema.methods.comparePassword
comparePassword(doc, candidatePassword) == bcryptCompare(candidatePassword, doc.password)

\* the fields of a document or plain object that came with the password
\* selected ('+password', or a new document) or without it (select: false)
AllFields == {"_id", "email", "username", "password", "role", "isActive",
              "lastLogin", "refreshTokens"}

toObject(withPassword) == IF withPassword THEN AllFields ELSE AllFields \ {"password"}

\* the schema's toJSON transform, which res.json applies to a document
toJSON(withPassword) == toObject(withPassword) \ {"password", "refreshTokens"}

\* Model.findOne({ email }) and Model.findOne({ username }): 0 when none;
\* the filter is cast with the schema's setters
findOneByEmail(db, email) ==
    IF \E j \in DOMAIN db : db[j].email = ToLower(email)
    THEN CHOOSE j \in DOMAIN db : db[j].email = ToLower(email)
    ELSE 0

findOneByUsername(db, username, exceptId) ==
    IF \E j \in DOMAIN db : j # exceptId /\ db[j].username = ToLower(username)
    THEN CHOOSE j \in DOMAIN db : j # exceptId /\ db[j].username = ToLower(username)
    ELSE 0

(***************************************************************************)
(* UserService                                                             *)
(***************************************************************************)
\* what a service method hands back: the collection after it, and either the
\* error it threw or its return value
Threw(db, err) ==
    [ok |-> FALSE, db |-> db, err |-> err, userFields |-> {},
     tokens |-> [accessToken |-> NoToken, refreshToken |-> NoToken],
     persisted |-> NoPersisted]

Returned(db, userFields, tokens, persisted) ==
    [ok |-> TRUE, db |-> db, err |-> NoError, userFields |-> userFields,
     tokens |-> tokens, persisted |-> persisted]

NoTokens == [accessToken |-> NoToken, refreshToken |-> NoToken]

\* history: the stored document the signed claims were read from
PersistedAt(db, id) ==
    IF id \in DOMAIN db
    THEN [exists |-> TRUE, id |-> db[id].id, email |-> db[id].email, role |-> db[id].role,
          hashed |-> db[id].password.kind = "bcrypt"]
    ELSE NoPersisted

\* user.refreshTokens.push(entry) as save() writes it: a $push, which appends
\* to the array the store holds by then; a new document is written as it is
push(db, user, entry) ==
    [user EXCEPT !.refreshTokens =
        Append(IF user.id \in DOMAIN db THEN db[user.id].refreshTokens ELSE @, entry)]

\* generateTokens that does not wait for user.save() to settle
generateTokens_NotAwaited(db, user) ==
    LET payload      == [id |-> user.id, email |-> user.email, role |-> user.role]
        accessToken  == jwtSign(payload, cfg.secret)
        refreshToken == jwtSign(payload, cfg.refreshSecret)
        pushed       == push(db, user, refreshToken)
        saved        == save(db, pushed, {"refreshTokens"}, 0, 2)
    IN  Returned(IF saved.ok THEN saved.db ELSE db, {},
                 [accessToken |-> accessToken, refreshToken |-> refreshToken],
                 PersistedAt(db, user.id))

\* generateTokens whose save writes the whole refreshTokens array of the
\* document in memory in place of the $push
generateTokens_Overwrite(db, user) ==
    LET payload      == [id |-> user.id, email |-> user.email, role |-> user.role]
        accessToken  == jwtSign(payload, cfg.secret)
        refreshToken == jwtSign(payload, cfg.refreshSecret)
        pushed       == [user EXCEPT !.refreshTokens = Append(@, refreshToken)]
        saved        == save(db, pushed, {"refreshTokens"}, 0, 2)
    IN  IF ~saved.ok THEN Threw(db, saved.err)
        ELSE Returned(saved.db, {},
                      [accessToken |-> accessToken, refreshToken |-> refreshToken],
                      PersistedAt(db, user.id))

generateTokens(db, user) ==
    LET payload      == [id |-> user.id, email |-> user.email, role |-> user.role]
        accessToken  == jwtSign(payload, cfg.secret)
        refreshToken == jwtSign(payload, cfg.refreshSecret)
        pushed       == push(db, user, refreshToken)
        saved        == save(db, pushed, {"refreshTokens"}, 0, 2)
    IN  IF ~saved.ok THEN Threw(db, saved.err)
        ELSE Returned(saved.db, {},
                      [accessToken |-> accessToken, refreshToken |-> refreshToken],
                      PersistedAt(db, user.id))

\* createUser without its uniqueness checks, on a collection without the indexes
createUser_Unchecked(db, userData, salt) ==
    LET user   == preSave(NewUser(Len(db) + 1, userData), AllFields, salt)
        tokens == generateTokens(Append(db, user), user)
    IN  IF ~tokens.ok THEN Threw(tokens.db, tokens.err)
        ELSE Returned(tokens.db, toObject(TRUE) \ {"password", "refreshTokens"},
                      tokens.tokens, tokens.persisted)

\* createUser that signs the tokens before it saves the new document
createUser_SignFirst(db, userData, salt) ==
    IF findOneByEmail(db, userData.email) # 0
    THEN Threw(db, AppError("Email already registered", 409, "userService.js:42"))
    ELSE IF userData.username # NoName /\ findOneByUsername(db, userData.username, 0) # 0
    THEN Threw(db, AppError("Username already taken", 409, "userService.js:52"))
    ELSE
        LET user   == NewUser(Len(db) + 1, userData)
            tokens == generateTokens(db, user)
        IN  IF ~tokens.ok THEN Threw(tokens.db, tokens.err)
            ELSE Returned(tokens.db, toObject(TRUE) \ {"password", "refreshTokens"},
                          tokens.tokens, tokens.persisted)

\* createUser that looks for the username before it looks for the email
createUserChecks_UsernameFirst(db, userData) ==
    IF userData.username # NoName /\ findOneByUsername(db, userData.username, 0) # 0
    THEN AppError("Username already taken", 409, "userService.js:52")
    ELSE IF findOneByEmail(db, userData.email) # 0
    THEN AppError("Email already registered", 409, "userService.js:42")
    ELSE NoError

\* createUser up to its last findOne: the error its checks throw, if any
createUserChecks(db, userData) ==
    IF findOneByEmail(db, userData.email) # 0
    THEN AppError("Email already registered", 409, "userService.js:42")
    ELSE IF userData.username # NoName /\ findOneByUsername(db, userData.username, 0) # 0
    THEN AppError("Username already taken", 409, "userService.js:52")
    ELSE NoError

\* createUser from new User(userData) on
createUserWrite(db, userData, salt) ==
    LET user  == NewUser(Len(db) + 1, userData)
        saved == save(db, user, AllFields, salt, 1)
    IN  IF ~saved.ok THEN Threw(db, saved.err)
        ELSE
            LET tokens == generateTokens(saved.db, saved.doc)
            IN  IF ~tokens.ok THEN Threw(tokens.db, tokens.err)
                ELSE Returned(tokens.db,
                              toObject(TRUE) \ {"password", "refreshTokens"},
                              tokens.tokens, tokens.persisted)

createUser(db, userData, salt) ==
    IF createUserChecks(db, userData) # NoError
    THEN Threw(db, createUserChecks(db, userData))
    ELSE createUserWrite(db, userData, salt)

\* loginUser that tells a caller when the email has no record
loginUser_NotFound(db, email, password) ==
    LET id == findOneByEmail(db, email)
    IN  IF id = 0
        THEN Threw(db, AppError("User not found", 404, "userService.js:117"))
        ELSE IF comparePassword(db[id], password) # "true"
        THEN Threw(db, AppError("Invalid email or password", 401, "userService.js:124"))
        ELSE
            LET tokens == generateTokens(db, db[id])
            IN  IF ~tokens.ok THEN Threw(tokens.db, tokens.err)
                ELSE Returned(tokens.db, toObject(TRUE), tokens.tokens, tokens.persisted)

\* loginUser that looks at isActive before it compares the password
loginUser_ActiveFirst(db, email, password) ==
    LET id == findOneByEmail(db, email)
    IN  IF id = 0
        THEN Threw(db, AppError("Invalid email or password", 401, "userService.js:117"))
        ELSE IF ~db[id].isActive
        THEN Threw(db, AppError("Account is deactivated", 403, "userService.js:131"))
        ELSE IF comparePassword(db[id], password) # "true"
        THEN Threw(db, AppError("Invalid email or password", 401, "userService.js:124"))
        ELSE
            LET saved == save(db, [db[id] EXCEPT !.lastLogin = @ + 1], {"lastLogin"}, 0, 1)
            IN  IF ~saved.ok THEN Threw(db, saved.err)
                ELSE
                    LET tokens == generateTokens(saved.db, saved.doc)
                    IN  IF ~tokens.ok THEN Threw(tokens.db, tokens.err)
                        ELSE Returned(tokens.db, toObject(TRUE),
                                      tokens.tokens, tokens.persisted)

\* loginUser that stamps lastLogin as soon as it has found the record
loginUser_StampFirst(db, email, password) ==
    LET id == findOneByEmail(db, email)
    IN  IF id = 0
        THEN Threw(db, AppError("Invalid email or password", 401, "userService.js:117"))
        ELSE
            LET saved == save(db, [db[id] EXCEPT !.lastLogin = @ + 1], {"lastLogin"}, 0, 1)
            IN  IF ~saved.ok THEN Threw(db, saved.err)
                ELSE IF comparePassword(db[id], password) # "true"
                THEN Threw(saved.db, AppError("Invalid email or password", 401, "userService.js:124"))
                ELSE IF ~db[id].isActive
                THEN Threw(saved.db, AppError("Account is deactivated", 403, "userService.js:131"))
                ELSE
                    LET tokens == generateTokens(saved.db, saved.doc)
                    IN  IF ~tokens.ok THEN Threw(tokens.db, tokens.err)
                        ELSE Returned(tokens.db, toObject(TRUE),
                                      tokens.tokens, tokens.persisted)

\* loginUser up to its isActive test: the error thrown, if any
loginUserChecks(db, email, password) ==
    LET id == findOneByEmail(db, email)
    IN  IF id = 0
        THEN AppError("Invalid email or password", 401, "userService.js:117")
        ELSE IF comparePassword(db[id], password) = "error"
        THEN BcryptError
        ELSE IF comparePassword(db[id], password) # "true"
        THEN AppError("Invalid email or password", 401, "userService.js:124")
        ELSE IF ~db[id].isActive
        THEN AppError("Account is deactivated", 403, "userService.js:131")
        ELSE NoError

loginUser(db, email, password) ==
    IF loginUserChecks(db, email, password) # NoError
    THEN Threw(db, loginUserChecks(db, email, password))
    ELSE
        LET id    == findOneByEmail(db, email)
            saved == save(db, [db[id] EXCEPT !.lastLogin = @ + 1], {"lastLogin"}, 0, 1)
        IN  IF ~saved.ok THEN Threw(db, saved.err)
            ELSE
                LET tokens == generateTokens(saved.db, saved.doc)
                IN  IF ~tokens.ok THEN Threw(tokens.db, tokens.err)
                    ELSE Returned(tokens.db, toObject(TRUE),
                                  tokens.tokens, tokens.persisted)

getUserById(db, userId) ==
    IF userId \notin DOMAIN db
    THEN Threw(db, AppError("User not found", 404, "userService.js:177"))
    ELSE Returned(db, toJSON(FALSE), NoTokens, NoPersisted)

\* findByIdAndUpdate(userId, { $set: updateData }, { new: true, runValidators: true })
\* updateData: keys, the fields set, and a value for each field
UpdateInvalid(updateData) ==
    \/ "password" \in updateData.keys /\ StrLen(updateData.password) < PASSWORD_MIN
    \/ "role" \in updateData.keys /\ updateData.role \notin Roles

Updated(doc, updateData) ==
    [f \in DOMAIN doc |->
        IF f \notin updateData.keys THEN doc[f]
        ELSE IF f \in {"email", "username"} THEN ToLower(updateData[f])
        ELSE updateData[f]]

\* updateUser up to its findOne: the error its check throws, if any
updateUserChecks(db, userId, updateData) ==
    IF "username" \in updateData.keys /\ updateData.username # NoName
       /\ findOneByUsername(db, updateData.username, userId) # 0
    THEN AppError("Username already taken", 409, "userService.js:268")
    ELSE NoError

\* updateUser from findByIdAndUpdate on
updateUserWrite(db, userId, updateData) ==
    IF UpdateInvalid(updateData)
    THEN Threw(db, MongooseValidationError("Validation failed"))
    ELSE IF userId \notin DOMAIN db
    THEN Threw(db, AppError("User not found", 404, "userService.js:280"))
    ELSE IF DuplicateKey(db, Updated(db[userId], updateData)) # ""
    THEN Threw(db, DuplicateKeyError(DuplicateKey(db, Updated(db[userId], updateData))))
    ELSE Returned([db EXCEPT ![userId] = Updated(db[userId], updateData)],
                  toJSON(FALSE), NoTokens, NoPersisted)

updateUser(db, userId, updateData) ==
    IF updateUserChecks(db, userId, updateData) # NoError
    THEN Threw(db, updateUserChecks(db, userId, updateData))
    ELSE updateUserWrite(db, userId, updateData)

\* deleteUser that removes the document from the collection
deleteUser_Remove(db, userId) ==
    IF userId \notin DOMAIN db
    THEN Threw(db, AppError("User not found", 404, "userService.js:308"))
    ELSE Returned([i \in 1..(Len(db) - 1) |-> IF i < userId THEN db[i] ELSE db[i + 1]],
                  {}, NoTokens, NoPersisted)

deleteUser(db, userId) ==
    IF userId \notin DOMAIN db
    THEN Threw(db, AppError("User not found", 404, "userService.js:308"))
    ELSE Returned([db EXCEPT ![userId].isActive = FALSE], {}, NoTokens, NoPersisted)

\* changePassword that saves the new password without comparing the current one
changePassword_NoCompare(db, userId, currentPassword, newPassword, salt) ==
    IF userId \notin DOMAIN db
    THEN Threw(db, AppError("User not found", 404, "userService.js:335"))
    ELSE
        LET saved == save(db, [db[userId] EXCEPT !.password = Raw(newPassword)],
                          {"password"}, salt, 1)
        IN  IF ~saved.ok THEN Threw(db, saved.err)
            ELSE Returned(saved.db, {}, NoTokens, NoPersisted)

\* changePassword that also empties the refreshTokens list
changePassword_Revoke(db, userId, currentPassword, newPassword, salt) ==
    IF userId \notin DOMAIN db
    THEN Threw(db, AppError("User not found", 404, "userService.js:335"))
    ELSE IF comparePassword(db[userId], currentPassword) # "true"
    THEN Threw(db, AppError("Current password is incorrect", 401, "userService.js:340"))
    ELSE
        LET saved == save(db, [db[userId] EXCEPT !.password = Raw(newPassword),
                                                 !.refreshTokens = <<>>],
                          {"password", "refreshTokens"}, salt, 1)
        IN  IF ~saved.ok THEN Threw(db, saved.err)
            ELSE Returned(saved.db, {}, NoTokens, NoPersisted)

changePassword(db, userId, currentPassword, newPassword, salt) ==
    IF userId \notin DOMAIN db
    THEN Threw(db, AppError("User not found", 404, "userService.js:335"))
    ELSE IF comparePassword(db[userId], currentPassword) = "error"
    THEN Threw(db, BcryptError)
    ELSE IF comparePassword(db[userId], currentPassword) # "true"
    THEN Threw(db, AppError("Current password is incorrect", 401, "userService.js:340"))
    ELSE
        LET saved == save(db, [db[userId] EXCEPT !.password = Raw(newPassword)],
                          {"password"}, salt, 1)
        IN  IF ~saved.ok THEN Threw(db, saved.err)
            ELSE Returned(saved.db, {}, NoTokens, NoPersisted)

\* verifyToken that passes on the message of the error jwt.verify threw
verifyToken_Rethrow(token) ==
    IF jwtVerify(token, cfg.secret)
    THEN [ok |-> TRUE, decoded |-> token, err |-> NoError]
    ELSE [ok |-> FALSE, decoded |-> NoToken,
          err |-> AppError(jwtVerifyError(token, cfg.secret), 401, "userService.js:411")]

\* verifyToken: the decoded claims, or the error thrown
verifyToken(token) ==
    IF jwtVerify(token, cfg.secret)
    THEN [ok |-> TRUE, decoded |-> token, err |-> NoError]
    ELSE [ok |-> FALSE, decoded |-> NoToken,
          err |-> AppError("Invalid or expired token", 401, "userService.js:411")]

(***************************************************************************)
(* Middlewares                                                             *)
(***************************************************************************)
\* req.headers.authorization: the text before the token, and the token;
\* NoHeader stands for a request without the header
NoHeader == [scheme |-> "", token |-> NoToken]

Bearer(token) == [scheme |-> "Bearer ", token |-> token]

\* authenticate that also loads the account and refuses a deactivated one
authenticate_ActiveOnly(authHeader) ==
    IF authHeader = NoHeader \/ authHeader.scheme # "Bearer "
    THEN [ok |-> FALSE, decoded |-> NoToken,
          err |-> AppError("No token provided", 401, "authMiddleware.js:38")]
    ELSE IF verifyToken(authHeader.token).ok
            /\ authHeader.token.id \in DOMAIN users
            /\ ~users[authHeader.token.id].isActive
    THEN [ok |-> FALSE, decoded |-> NoToken,
          err |-> AppError("Account is deactivated", 403, "authMiddleware.js:46")]
    ELSE verifyToken(authHeader.token)

\* authenticate that takes the token whatever the header starts with
authenticate_AnyScheme(authHeader) ==
    IF authHeader = NoHeader
    THEN [ok |-> FALSE, decoded |-> NoToken,
          err |-> AppError("No token provided", 401, "authMiddleware.js:38")]
    ELSE verifyToken(authHeader.token)

authenticate(authHeader) ==
    IF authHeader = NoHeader \/ authHeader.scheme # "Bearer "
    THEN [ok |-> FALSE, decoded |-> NoToken,
          err |-> AppError("No token provided", 401, "authMiddleware.js:38")]
    ELSE verifyToken(authHeader.token)

\* validate that calls next() whatever schema.validate reports
validate_PassAll(valid) == NoError

\* validate(schema): the error passed to next, if any; req.body stays as sent
validate(valid) ==
    IF valid THEN NoError
    ELSE [AppError("Validation failed", 400, "app.js:205")
             EXCEPT !.details = TRUE]

\* Joi.string().email(): one "@" after a local part, and a domain of at
\* least two segments
emailSchema(s) ==
    \E i \in DOMAIN s :
        /\ s[i] = 64 /\ i > 1
        /\ \A j \in DOMAIN s : s[j] = 64 => j = i
        /\ \E d \in (i + 2)..(Len(s) - 1) : s[d] = 46

\* Joi.string().alphanum().min(3).max(30).optional(): a body without the key passes
usernameSchema(s) ==
    s = NoName
    \/ (/\ Len(s) >= 3 /\ Len(s) <= 30
        /\ \A i \in DOMAIN s : s[i] \in (48..57) \cup (65..90) \cup (97..122))

\* userSchemas.register, for a body that has firstName and lastName; keys the
\* schema does not know are no error under stripUnknown
registerSchema(body) ==
    /\ emailSchema(body.email)
    /\ Len(body.password) >= PASSWORD_MIN /\ Len(body.password) <= PASSWORD_MAX
    /\ usernameSchema(body.username)
    /\ body.role \in Roles

loginSchema(body) == emailSchema(body.email) /\ body.password # <<>>

updateProfileSchema(body) ==
    "username" \in body.keys => (body.username # NoName /\ usernameSchema(body.username))

changePasswordSchema(body) ==
    /\ body.currentPassword # <<>>
    /\ Len(body.newPassword) >= PASSWORD_MIN /\ Len(body.newPassword) <= PASSWORD_MAX

(***************************************************************************)
(* Controllers: the response a request ends with                           *)
(***************************************************************************)
\* res.status(status).json({ success: true, ... })
Sent(op, status, r, req) ==
    [op |-> op, status |-> status, success |-> TRUE, error |-> "", stack |-> "",
     details |-> FALSE, userFields |-> r.userFields, tokens |-> r.tokens,
     req |-> req, persisted |-> r.persisted]

\* next(error), which ends in errorHandler
Failed(op, err, req) ==
    LET body == errorHandler(err)
    IN  [op |-> op, status |-> body.status, success |-> body.success,
         error |-> body.error, stack |-> body.stack, details |-> body.details,
         userFields |-> {}, tokens |-> NoTokens, req |-> req,
         persisted |-> NoPersisted]

Respond(op, status, r, req) ==
    IF r.ok THEN Sent(op, status, r, req) ELSE Failed(op, r.err, req)

\* bcrypt.genSalt: random, taken as a value no earlier request drew
genSalt == reqs + 1

TokensOf(r) == IF r.ok THEN {r.tokens.accessToken, r.tokens.refreshToken} \ {NoToken} ELSE {}

(***************************************************************************)
(* Requests                                                                *)
(***************************************************************************)
\* a body of POST /register with the fields of the register schema only
RegisterBody(email, password, username) ==
    [email |-> email, password |-> password, username |-> username,
     role |-> "student", isActive |-> TRUE, refreshTokens |-> <<>>]

\* the bodies sent: those, and bodies that carry one more field of the model
RegisterBodies ==
    { RegisterBody(e, p, NoName) : e \in Emails, p \in {PwShort, PwLongB, PwTiny} }
    \cup { RegisterBody(e, PwShort, NameU) : e \in {EmailA, EmailB} }
    \cup { [RegisterBody(EmailA, PwShort, NoName) EXCEPT !.role = "admin"],
           [RegisterBody(EmailA, PwShort, NoName) EXCEPT !.isActive = FALSE],
           [RegisterBody(EmailA, PwShort, NoName) EXCEPT !.refreshTokens = <<Foreign>>] }

UpdateBody(keys, username, role, isActive, password, refreshTokens) ==
    [keys |-> keys, username |-> username, role |-> role, isActive |-> isActive,
     password |-> password, refreshTokens |-> refreshTokens, email |-> <<>>]

UpdateBodies ==
    { UpdateBody({"username"}, NameU, "", TRUE, Raw(<<>>), <<>>),
      UpdateBody({"role"}, NoName, "admin", TRUE, Raw(<<>>), <<>>),
      UpdateBody({"isActive"}, NoName, "", TRUE, Raw(<<>>), <<>>),
      UpdateBody({"password"}, NoName, "", TRUE, Raw(Junk60), <<>>),
      UpdateBody({"password"}, NoName, "", TRUE, bcryptHash(PwShort, 0), <<>>),
      UpdateBody({"refreshTokens"}, NoName, "", TRUE, Raw(<<>>), <<>>) }

\* the new passwords asked for in POST /change-password
NewPasswords == {PwShort, PwLongC}

\* the Authorization headers sent: none, or "Bearer " and a token
Credentials == {NoHeader} \cup { Bearer(t) : t \in issued \cup {Foreign} }

\* one more request is taken, while the run has room for it
Served ==
    /\ reqs < MaxRequests
    /\ reqs' = reqs + 1
    /\ UNCHANGED <<calls, storeFailsAt>>

\* POST /register: validate(userSchemas.register), userController.register
Register(body) ==
    LET verr == validate(registerSchema(body))
        r    == IF verr # NoError THEN Threw(users, verr) ELSE createUser(users, body, genSalt)
        req  == [NoReq EXCEPT !.email = body.email, !.password = body.password,
                              !.username = body.username]
    IN  /\ Served
        /\ users' = r.db
        /\ plain' = IF r.ok THEN Append(plain, body.password) ELSE plain
        /\ issued' = issued \cup TokensOf(r)
        /\ resp' = Respond("register", 201, r, req)
        /\ UNCHANGED cfg

\* POST /login: validate(userSchemas.login), userController.login
Login(email, password) ==
    LET verr == validate(loginSchema([email |-> email, password |-> password]))
        r    == IF verr # NoError THEN Threw(users, verr) ELSE loginUser(users, email, password)
        req  == [NoReq EXCEPT !.email = email, !.password = password]
    IN  /\ Served
        /\ users' = r.db
        /\ issued' = issued \cup TokensOf(r)
        /\ resp' = Respond("login", 200, r, req)
        /\ UNCHANGED <<cfg, plain>>

\* GET /profile: authenticate, userController.getProfile
GetProfile(authHeader) ==
    LET auth == authenticate(authHeader)
        r    == IF ~auth.ok THEN Threw(users, auth.err) ELSE getUserById(users, auth.decoded.id)
    IN  /\ Served
        /\ resp' = Respond("getProfile", 200, r, [NoReq EXCEPT !.userId = auth.decoded.id, !.scheme = authHeader.scheme])
        /\ UNCHANGED <<users, cfg, issued, plain>>

\* PUT /profile: authenticate, validate(userSchemas.updateProfile), userController.updateProfile
UpdateProfile(authHeader, body) ==
    LET auth == authenticate(authHeader)
        verr == validate(updateProfileSchema(body))
        r    == IF ~auth.ok THEN Threw(users, auth.err)
                ELSE IF verr # NoError THEN Threw(users, verr)
                ELSE updateUser(users, auth.decoded.id, body)
        req  == [NoReq EXCEPT !.userId = auth.decoded.id, !.scheme = authHeader.scheme,
                              !.username = body.username]
    IN  /\ Served
        /\ users' = r.db
        /\ resp' = Respond("updateProfile", 200, r, req)
        /\ UNCHANGED <<cfg, issued, plain>>

\* DELETE /account: authenticate, userController.deleteAccount
DeleteAccount(authHeader) ==
    LET auth == authenticate(authHeader)
        r    == IF ~auth.ok THEN Threw(users, auth.err) ELSE deleteUser(users, auth.decoded.id)
    IN  /\ Served
        /\ users' = r.db
        /\ resp' = Respond("deleteAccount", 200, r, [NoReq EXCEPT !.userId = auth.decoded.id, !.scheme = authHeader.scheme])
        /\ UNCHANGED <<cfg, issued, plain>>

\* POST /change-password: authenticate, validate(userSchemas.changePassword),
\* userController.changePassword
ChangePassword(authHeader, currentPassword, newPassword) ==
    LET auth == authenticate(authHeader)
        body == [currentPassword |-> currentPassword, newPassword |-> newPassword]
        verr == validate(changePasswordSchema(body))
        r    == IF ~auth.ok THEN Threw(users, auth.err)
                ELSE IF verr # NoError THEN Threw(users, verr)
                ELSE changePassword(users, auth.decoded.id, currentPassword, newPassword, genSalt)
        req  == [NoReq EXCEPT !.userId = auth.decoded.id, !.scheme = authHeader.scheme,
                              !.password = currentPassword,
                              !.newPassword = newPassword]
    IN  /\ Served
        /\ users' = r.db
        /\ plain' = IF r.ok THEN [plain EXCEPT ![auth.decoded.id] = newPassword] ELSE plain
        /\ resp' = Respond("changePassword", 200, r, req)
        /\ UNCHANGED <<cfg, issued>>

NoResp ==
    [op |-> "none", status |-> 0, success |-> TRUE, error |-> "", stack |-> "",
     details |-> FALSE, userFields |-> {}, tokens |-> NoTokens, req |-> NoReq,
     persisted |-> NoPersisted]

Init ==
    /\ users = <<>>
    /\ cfg \in [secret : {"s1"}, refreshSecret : Secrets, env : Envs]
    /\ issued = {}
    /\ resp = NoResp
    /\ plain = <<>>
    /\ reqs = 0
    /\ calls = <<>>
    /\ storeFailsAt = 0

Next ==
    \/ \E body \in RegisterBodies : Register(body)
    \/ \E email \in Emails, password \in Passwords : Login(email, password)
    \/ \E authHeader \in Credentials : GetProfile(authHeader)
    \/ \E authHeader \in Credentials, body \in UpdateBodies : UpdateProfile(authHeader, body)
    \/ \E authHeader \in Credentials : DeleteAccount(authHeader)
    \/ \E authHeader \in Credentials, cur \in Passwords, new \in NewPasswords :
          ChangePassword(authHeader, cur, new)

Spec == Init /\ [][Next]_vars

\* Register and Login alone: the runs in which an account is only registered
\* and logged in to
NextSessions ==
    \/ \E body \in RegisterBodies : Register(body)
    \/ \E email \in Emails, password \in Passwords : Login(email, password)

SpecSessions == Init /\ [][NextSessions]_vars

(***************************************************************************)
(* The admin routes, and what a caller may put in the Authorization header *)
(***************************************************************************)
\* authorize that lets every authenticated caller through
authorize_AnyRole(decoded, roles) ==
    IF decoded = NoToken THEN AppError("Authentication required", 401, "authMiddleware.js:92")
    ELSE NoError

\* authorize(...roles), after authenticate has set req.user to decoded
authorize(decoded, roles) ==
    IF decoded = NoToken THEN AppError("Authentication required", 401, "authMiddleware.js:92")
    ELSE IF decoded.role \notin roles
    THEN AppError("Insufficient permissions", 403, "authMiddleware.js:97")
    ELSE NoError

\* UserService.getAllUsers without filters: the documents found
getAllUsers(db) == Returned(db, IF db = <<>> THEN {} ELSE toJSON(FALSE), NoTokens, NoPersisted)

\* the text a header may start with in place of "Bearer "
OtherSchemes == {"Basic ", "bearer ", "Bearer"}

\* the headers sent to the routes below: those of Credentials, a string that
\* is no JWT, tokens of the service past their expiry, and tokens of the
\* service after another prefix
Presented ==
    Credentials
    \cup {Bearer(Malformed)}
    \cup { Bearer(Expired(t)) : t \in issued }
    \cup { [scheme |-> sch, token |-> t] : sch \in OtherSchemes, t \in issued }

\* the ids a caller may ask for: those of the collection and one more
UserIds == 1..(Len(users) + 1)

\* what the admin routes note of the request: the header and req.user
AdminReq(authHeader, auth) ==
    [NoReq EXCEPT !.userId = auth.decoded.id, !.scheme = authHeader.scheme,
                  !.role = auth.decoded.role]

\* GET /users: authenticate, authorize('admin'), userController.getAllUsers
GetAllUsers(authHeader) ==
    LET auth == authenticate(authHeader)
        perm == authorize(auth.decoded, {"admin"})
        r    == IF ~auth.ok THEN Threw(users, auth.err)
                ELSE IF perm # NoError THEN Threw(users, perm)
                ELSE getAllUsers(users)
    IN  /\ Served
        /\ resp' = Respond("getAllUsers", 200, r, AdminReq(authHeader, auth))
        /\ UNCHANGED <<users, cfg, issued, plain>>

\* GET /users/:id: authenticate, authorize('admin'), userController.getUserById
GetUserById(authHeader, id) ==
    LET auth == authenticate(authHeader)
        perm == authorize(auth.decoded, {"admin"})
        r    == IF ~auth.ok THEN Threw(users, auth.err)
                ELSE IF perm # NoError THEN Threw(users, perm)
                ELSE getUserById(users, id)
    IN  /\ Served
        /\ resp' = Respond("getUserById", 200, r, AdminReq(authHeader, auth))
        /\ UNCHANGED <<users, cfg, issued, plain>>

\* registrations, logins, and reads with every kind of header
NextTokens ==
    \/ \E body \in RegisterBodies : Register(body)
    \/ \E email \in Emails, password \in Passwords : Login(email, password)
    \/ \E authHeader \in Presented : GetProfile(authHeader)
    \/ \E authHeader \in Presented : GetAllUsers(authHeader)
    \/ \E authHeader \in Presented, id \in UserIds : GetUserById(authHeader, id)

SpecTokens == Init /\ [][NextTokens]_vars

(***************************************************************************)
(* Concurrent registrations: createUser between its checks and its write   *)
(***************************************************************************)
\* the bodies of the registrations that run concurrently
RaceBodies == { RegisterBody(e, PwShort, u) : e \in Emails, u \in Usernames }

\* POST /register up to the last findOne of createUser: an error is answered
\* at once, otherwise the call waits for its turn to write
RegisterBegin(body) ==
    LET verr == validate(registerSchema(body))
        err  == IF verr # NoError THEN verr ELSE createUserChecks(users, body)
        req  == [NoReq EXCEPT !.email = body.email, !.password = body.password,
                              !.username = body.username]
    IN  /\ reqs < MaxRequests
        /\ reqs' = reqs + 1
        /\ calls' = IF err = NoError THEN Append(calls, [op |-> "register", body |-> body, salt |-> genSalt])
                    ELSE calls
        /\ resp' = IF err = NoError THEN resp ELSE Failed("register", err, req)
        /\ UNCHANGED <<users, cfg, issued, plain, storeFailsAt>>

\* the rest of the kth waiting call: new User, save, generateTokens, the answer
RegisterEnd(k) ==
    LET body == calls[k].body
        r    == createUserWrite(users, body, calls[k].salt)
        req  == [NoReq EXCEPT !.email = body.email, !.password = body.password,
                              !.username = body.username]
    IN  /\ users' = r.db
        /\ plain' = IF r.ok THEN Append(plain, body.password) ELSE plain
        /\ issued' = issued \cup TokensOf(r)
        /\ resp' = Respond("register", 201, r, req)
        /\ calls' = [i \in 1..(Len(calls) - 1) |-> IF i < k THEN calls[i] ELSE calls[i + 1]]
        /\ UNCHANGED <<cfg, reqs, storeFailsAt>>

NextRace ==
    \/ \E body \in RaceBodies : RegisterBegin(body)
    \/ \E k \in DOMAIN calls : calls[k].op = "register" /\ RegisterEnd(k)

SpecRace == Init /\ [][NextRace]_vars

(***************************************************************************)
(* Concurrent registrations and profile updates that set a username        *)
(***************************************************************************)
NameBodies == { RegisterBody(e, PwShort, u) : e \in {EmailA, EmailB}, u \in Usernames }

NameUpdates == { UpdateBody({"username"}, NameU, "", TRUE, Raw(<<>>), <<>>) }

\* PUT /profile up to the findOne of updateUser: an error is answered at
\* once, otherwise the call waits for its turn to write
UpdateBegin(authHeader, body) ==
    LET auth == authenticate(authHeader)
        verr == validate(updateProfileSchema(body))
        err  == IF ~auth.ok THEN auth.err
                ELSE IF verr # NoError THEN verr
                ELSE updateUserChecks(users, auth.decoded.id, body)
        req  == [NoReq EXCEPT !.userId = auth.decoded.id, !.scheme = authHeader.scheme,
                              !.username = body.username]
    IN  /\ reqs < MaxRequests
        /\ reqs' = reqs + 1
        /\ calls' = IF err = NoError
                    THEN Append(calls, [op |-> "update", body |-> body, req |-> req])
                    ELSE calls
        /\ resp' = IF err = NoError THEN resp ELSE Failed("updateProfile", err, req)
        /\ UNCHANGED <<users, cfg, issued, plain, storeFailsAt>>

\* the rest of the kth waiting call: findByIdAndUpdate, the answer
UpdateEnd(k) ==
    LET r == updateUserWrite(users, calls[k].req.userId, calls[k].body)
    IN  /\ users' = r.db
        /\ resp' = Respond("updateProfile", 200, r, calls[k].req)
        /\ calls' = [i \in 1..(Len(calls) - 1) |-> IF i < k THEN calls[i] ELSE calls[i + 1]]
        /\ UNCHANGED <<cfg, issued, plain, reqs, storeFailsAt>>

NextNames ==
    \/ \E body \in NameBodies : RegisterBegin(body)
    \/ \E k \in DOMAIN calls : calls[k].op = "register" /\ RegisterEnd(k)
    \/ \E authHeader \in Credentials, body \in NameUpdates : UpdateBegin(authHeader, body)
    \/ \E k \in DOMAIN calls : calls[k].op = "update" /\ UpdateEnd(k)

SpecNames == Init /\ [][NextNames]_vars

(***************************************************************************)
(* Concurrent logins: loginUser and generateTokens between their awaits     *)
(***************************************************************************)
LoginBodies == { RegisterBody(e, PwShort, NoName) : e \in {EmailA, EmailB} }

\* a call that waits at an await: what it does next (op), the route it
\* answers, the document it holds in memory, and its request
Waiting(op, route, user, req) == [op |-> op, route |-> route, user |-> user, req |-> req]

Without(k) == [i \in 1..(Len(calls) - 1) |-> IF i < k THEN calls[i] ELSE calls[i + 1]]

\* POST /register up to the first save of createUser; generateTokens is to come
RegisterSave(body) ==
    LET verr  == validate(registerSchema(body))
        err   == IF verr # NoError THEN verr ELSE createUserChecks(users, body)
        saved == save(users, NewUser(Len(users) + 1, body), AllFields, genSalt, 1)
        req   == [NoReq EXCEPT !.email = body.email, !.password = body.password,
                               !.username = body.username]
    IN  /\ reqs < MaxRequests
        /\ reqs' = reqs + 1
        /\ IF err # NoError \/ ~saved.ok
           THEN /\ resp' = Failed("register", IF err # NoError THEN err ELSE saved.err, req)
                /\ UNCHANGED <<users, plain, calls>>
           ELSE /\ users' = saved.db
                /\ plain' = Append(plain, body.password)
                /\ calls' = Append(calls, Waiting("tokens", "register", saved.doc, req))
                /\ UNCHANGED resp
        /\ UNCHANGED <<cfg, issued, storeFailsAt>>

\* POST /login up to the isActive test of loginUser, on the document findOne read
LoginBegin(email, password) ==
    LET verr == validate(loginSchema([email |-> email, password |-> password]))
        err  == IF verr # NoError THEN verr ELSE loginUserChecks(users, email, password)
        req  == [NoReq EXCEPT !.email = email, !.password = password]
    IN  /\ reqs < MaxRequests
        /\ reqs' = reqs + 1
        /\ IF err # NoError
           THEN /\ resp' = Failed("login", err, req)
                /\ UNCHANGED calls
           ELSE /\ calls' = Append(calls, Waiting("stamp", "login",
                                                  users[findOneByEmail(users, email)], req))
                /\ UNCHANGED resp
        /\ UNCHANGED <<users, cfg, issued, plain, storeFailsAt>>

\* loginUser: user.lastLogin = new Date(); await user.save()
LoginStamp(k) ==
    LET saved == save(users, [calls[k].user EXCEPT !.lastLogin = @ + 1], {"lastLogin"}, 0, 1)
    IN  /\ calls[k].op = "stamp"
        /\ users' = saved.db
        /\ IF saved.ok
           THEN /\ calls' = [calls EXCEPT ![k] = Waiting("tokens", @.route, saved.doc, @.req)]
                /\ UNCHANGED resp
           ELSE /\ calls' = Without(k)
                /\ resp' = Failed(calls[k].route, saved.err, calls[k].req)
        /\ UNCHANGED <<cfg, issued, plain, reqs, storeFailsAt>>

\* generateTokens on the document the call holds, and the answer of its route
IssueTokens(k) ==
    LET tokens == generateTokens(users, calls[k].user)
        r      == IF ~tokens.ok THEN Threw(tokens.db, tokens.err)
                  ELSE Returned(tokens.db,
                                IF calls[k].route = "login" THEN toObject(TRUE)
                                ELSE toObject(TRUE) \ {"password", "refreshTokens"},
                                tokens.tokens, tokens.persisted)
    IN  /\ calls[k].op = "tokens"
        /\ users' = r.db
        /\ issued' = issued \cup TokensOf(r)
        /\ resp' = Respond(calls[k].route, IF calls[k].route = "login" THEN 200 ELSE 201,
                           r, calls[k].req)
        /\ calls' = Without(k)
        /\ UNCHANGED <<cfg, plain, reqs, storeFailsAt>>

NextLogins ==
    \/ \E body \in LoginBodies : RegisterSave(body)
    \/ \E email \in {EmailA, EmailB}, password \in {PwShort, PwLongB} : LoginBegin(email, password)
    \/ \E k \in DOMAIN calls : LoginStamp(k)
    \/ \E k \in DOMAIN calls : IssueTokens(k)

SpecLogins == Init /\ [][NextLogins]_vars

(***************************************************************************)
(* A store that fails writes                                               *)
(***************************************************************************)
\* the store starts to fail every request from its kth write on, or recovers (0)
Outage(k) ==
    /\ reqs < MaxRequests
    /\ k # storeFailsAt
    /\ storeFailsAt' = k
    /\ UNCHANGED <<users, cfg, issued, resp, plain, reqs, calls>>

NextFaults ==
    \/ \E body \in RaceBodies : Register(body)
    \/ \E email \in Emails, password \in Passwords : Login(email, password)
    \/ \E k \in 0..2 : Outage(k)

SpecFaults == Init /\ [][NextFaults]_vars

(***************************************************************************)
(* Bodies that the schemas refuse                                          *)
(***************************************************************************)
BadEmail == <<97, 120>>            \* "ax": no "@"
NameBad  == <<117, 45, 120>>       \* "u-x": not alphanumeric
NoText   == <<>>                   \* an empty string

\* bodies of POST /register: two that the schema takes, and bodies with a bad
\* email, a short password, both (as in the controller's test), a bad username
InvalidRegisterBodies ==
    { RegisterBody(EmailA, PwShort, NoName),
      RegisterBody(EmailB, PwShort, NameU),
      RegisterBody(BadEmail, PwShort, NoName),
      RegisterBody(EmailA, PwTiny, NoName),
      RegisterBody(BadEmail, PwTiny, NoName),
      RegisterBody(EmailB, PwShort, NameBad) }

\* bodies of PUT /profile: a username the schema takes, one it refuses, and
\* one it refuses next to a key it does not know
InvalidUpdateBodies ==
    { UpdateBody({"username"}, NameU, "", TRUE, Raw(<<>>), <<>>),
      UpdateBody({"username"}, NameBad, "", TRUE, Raw(<<>>), <<>>),
      UpdateBody({"username", "role"}, NameBad, "admin", TRUE, Raw(<<>>), <<>>) }

NextValidation ==
    \/ \E body \in InvalidRegisterBodies : Register(body)
    \/ \E email \in {EmailA, BadEmail}, password \in {PwShort, NoText} : Login(email, password)
    \/ \E authHeader \in Credentials, body \in InvalidUpdateBodies : UpdateProfile(authHeader, body)
    \/ \E authHeader \in Credentials, cur \in {PwShort, NoText}, new \in {PwLongC, PwTiny} :
          ChangePassword(authHeader, cur, new)

SpecValidation == Init /\ [][NextValidation]_vars

(***************************************************************************)
(* Properties                                                              *)
(***************************************************************************)
\* what the caller reads of a response
Body(r) ==
    [status |-> r.status, success |-> r.success, error |-> r.error,
     stack |-> r.stack, details |-> r.details]

\* the record the last request's email names, 0 when none
LoginRecord == findOneByEmail(users, resp.req.email)

\* C1: Login(email, p) returns a token pair only if a record with that email
\* exists, p is the plaintext last set for it by Register or by a successful
\* ChangePassword, and the record is active; in every other case it fails and
\* returns no tokens.
C1_LoginOnlyWithLastPassword ==
    resp.op = "login" =>
        /\ resp.tokens # NoTokens <=>
              IF LoginRecord = 0 THEN FALSE
              ELSE plain[LoginRecord] = resp.req.password /\ users[LoginRecord].isActive
        /\ resp.tokens = NoTokens => ~resp.success

\* C2: a Register whose email already belongs to a stored record answers 409,
\* whatever its other fields are, and leaves the collection as it was.
C2_DuplicateEmailConflict ==
    [][(/\ resp'.op = "register"
        /\ reqs' = reqs + 1
        /\ Len(resp'.req.password) >= PASSWORD_MIN
        /\ findOneByEmail(users, resp'.req.email) # 0)
       => (resp'.status = 409 /\ ~resp'.success /\ users' = users)]_vars

C2_Witness ==
    /\ resp.op = "register" /\ resp.status = 409
    /\ Len(users) = 1
    /\ resp.req.email = EmailAUp /\ users[1].email = EmailA

\* the last request was a Login that named no record
NoSuchEmail == resp.op = "login" /\ LoginRecord = 0

\* the last request was a Login that named a record and gave a password the
\* stored hash does not match
WrongPassword ==
    /\ resp.op = "login"
    /\ LoginRecord # 0
    /\ comparePassword(users[IF LoginRecord = 0 THEN 1 ELSE LoginRecord], resp.req.password) = "false"

\* what errorHandler sends for that Login when no record has the email
NoRecordBody == errorHandler(loginUser(<<>>, resp.req.email, resp.req.password).err)

\* C3 as stated: a Login for an email without a record and a Login with a wrong
\* password for an existing one are answered alike, status, message and all
\* the caller can read.
C3_Indistinguishable ==
    (NoSuchEmail \/ WrongPassword) => (resp.status = 401 /\ Body(resp) = NoRecordBody)

\* C3: both are answered with status 401 and the same message; the whole body
\* is the same when the service does not run in development, where the body
\* carries the stack of the error.
C3_SameStatusAndMessage ==
    (NoSuchEmail \/ WrongPassword) =>
        /\ resp.status = 401
        /\ resp.error = NoRecordBody.error
        /\ cfg.env # "development" => Body(resp) = NoRecordBody

C3_Witness ==
    /\ WrongPassword
    /\ cfg.env = "production"
    /\ resp.status = 401 /\ resp.error = "Invalid email or password"

\* C4: no payload sent to a caller holds the password hash or the refreshTokens
\* list of a record.
C4_NoSecretsInPayload == resp.userFields \cap {"password", "refreshTokens"} = {}

\* C5: the id, email and role in the access token of a successful Register or
\* Login are those of a record that was stored, with its password hashed,
\* before the token was signed.
C5_TokenOfPersistedRecord ==
    resp.tokens # NoTokens =>
        /\ resp.op \in {"register", "login"}
        /\ resp.persisted.exists /\ resp.persisted.hashed
        /\ resp.tokens.accessToken.id = resp.persisted.id
        /\ resp.tokens.accessToken.email = resp.persisted.email
        /\ resp.tokens.accessToken.role = resp.persisted.role

C5_Witness ==
    /\ resp.op = "login" /\ resp.success
    /\ resp.tokens.accessToken.role = "admin"
    /\ resp.persisted.role = "admin"
    /\ \E t \in issued : t.id = resp.tokens.accessToken.id /\ t.role = "student"

\* C6: verifyToken rejects a token signed with the refresh secret, and a token
\* signed with the access secret does not verify against the refresh secret,
\* in every configuration the service starts with.
C6_CrossSecretRejection ==
    resp.tokens # NoTokens =>
        /\ ~verifyToken(resp.tokens.refreshToken).ok
        /\ ~jwtVerify(resp.tokens.accessToken, cfg.refreshSecret)

\* C7: after a Register and n successful Logins of an account, and nothing
\* else, its refreshTokens list has n + 1 entries and the last is the refresh
\* token the latest call returned.
C7_OneTokenPerLogin ==
    \A i \in DOMAIN users :
        /\ Len(users[i].refreshTokens) = users[i].lastLogin + 1
        /\ (resp.tokens # NoTokens /\ resp.tokens.refreshToken.id = i)
              => users[i].refreshTokens[Len(users[i].refreshTokens)] = resp.tokens.refreshToken

\* C8: a ChangePassword whose current password the stored hash does not match
\* answers 401 and leaves the record, its hash included, as it was.
C8_WrongCurrentPassword ==
    [][(/\ resp'.op = "changePassword"
        /\ reqs' = reqs + 1
        /\ resp'.req.userId \in DOMAIN users
        /\ Len(resp'.req.newPassword) >= PASSWORD_MIN
        /\ comparePassword(users[IF resp'.req.userId \in DOMAIN users THEN resp'.req.userId ELSE 1],
                           resp'.req.password) = "false")
       => (resp'.status = 401 /\ resp'.error = "Current password is incorrect" /\ users' = users)]_vars

C8_Witness ==
    /\ resp.op = "changePassword" /\ resp.status = 401
    /\ resp.req.userId \in DOMAIN users
    /\ resp.req.password # plain[IF resp.req.userId \in DOMAIN users THEN resp.req.userId ELSE 1]
    /\ comparePassword(users[IF resp.req.userId \in DOMAIN users THEN resp.req.userId ELSE 1],
                       plain[IF resp.req.userId \in DOMAIN users THEN resp.req.userId ELSE 1]) = "true"

\* C9: for a record whose stored hash was made from the plaintext last given
\* for it, comparePassword is true of a password the schemas accept exactly
\* when it is that plaintext.
C9_VerifyIffEqual ==
    \A i \in DOMAIN users :
        users[i].password = bcryptHash(plain[i], users[i].password.salt) =>
            \A p \in Passwords : (comparePassword(users[i], p) = "true") <=> (p = plain[i])

\* C10: a second ChangePassword to the same new password, presented as the
\* current one, succeeds, and after it comparePassword accepts the new
\* password and rejects the one the first call replaced.
C10_ChangeTwice ==
    [][(/\ resp.op = "changePassword" /\ resp.success
        /\ resp.req.password # resp.req.newPassword
        /\ resp'.op = "changePassword"
        /\ resp'.req.userId = resp.req.userId
        /\ resp'.req.password = resp.req.newPassword
        /\ resp'.req.newPassword = resp.req.newPassword)
       => (/\ resp'.success
           /\ comparePassword(users'[resp.req.userId], resp.req.newPassword) = "true"
           /\ comparePassword(users'[resp.req.userId], resp.req.password) # "true")]_vars

\* C11: whatever the order in which concurrent registrations check and write,
\* no two records of the collection have the same email.
C11_UniqueEmails ==
    \A i \in DOMAIN users, j \in DOMAIN users : i # j => users[i].email # users[j].email

\* a call that passed its checks waits to write while its email is stored already
C11_Witness ==
    \E k \in DOMAIN calls : findOneByEmail(users, calls[k].body.email) # 0

\* C12: a registration that passed its checks and finds its email stored when
\* it writes is answered as the pre-check would answer it now, with 409 and
\* not 500, and writes nothing.
C12_RaceLoserConflict ==
    [][(/\ resp'.op = "register"
        /\ Len(calls') < Len(calls)
        /\ findOneByEmail(users, resp'.req.email) # 0)
       => (/\ resp'.status = 409
           /\ resp'.status =
                errorHandler(createUserChecks(users,
                    RegisterBody(resp'.req.email, resp'.req.password, NoName))).status
           /\ ~resp'.success
           /\ users' = users)]_vars

C12_Witness ==
    /\ resp.op = "register"
    /\ resp.status = 409
    /\ resp.error = "email already exists"

\* C13: a refresh token returned by Register or Login is by then an entry of
\* the stored refreshTokens list of its record; when the store fails the save,
\* the call fails and returns no tokens.
C13_ReturnedTokenStored ==
    /\ resp.tokens # NoTokens =>
          /\ resp.tokens.refreshToken.id \in DOMAIN users
          /\ \E k \in DOMAIN users[resp.tokens.refreshToken.id].refreshTokens :
                users[resp.tokens.refreshToken.id].refreshTokens[k] = resp.tokens.refreshToken
    /\ (resp.op \in {"register", "login"} /\ resp.error = StorageError.message) =>
          (~resp.success /\ resp.tokens = NoTokens)

\* the store took the new document and failed the save of its refresh token
C13_Witness ==
    /\ resp.op = "register"
    /\ resp.error = StorageError.message
    /\ resp.tokens = NoTokens
    /\ storeFailsAt = 2
    /\ Len(users) = 1 /\ users[1].refreshTokens = <<>>

\* C14: no step shortens the refreshTokens list of a record or changes an
\* entry it holds: the list before the step is a prefix of the list after.
C14_TokensAppendOnly ==
    [][\A i \in DOMAIN users :
          /\ i \in DOMAIN users'
          /\ Len(users'[i].refreshTokens) >= Len(users[i].refreshTokens)
          /\ \A k \in DOMAIN users[i].refreshTokens :
                k \in DOMAIN users'[i].refreshTokens
                /\ users'[i].refreshTokens[k] = users[i].refreshTokens[k]]_vars

\* C15: whatever has become of the collection, authenticate accepts every
\* access token the service issued, with the claims it was signed with.
C15_VerifyIgnoresStore ==
    \A t \in issued :
        jwtVerify(t, cfg.secret) =>
            authenticate(Bearer(t)) = [ok |-> TRUE, decoded |-> t, err |-> NoError]

\* an accepted token whose account is deactivated and has another role by now
C15_Witness ==
    \E t \in issued :
        /\ authenticate(Bearer(t)).ok
        /\ t.id \in DOMAIN users
        /\ ~users[IF t.id \in DOMAIN users THEN t.id ELSE 1].isActive
        /\ users[IF t.id \in DOMAIN users THEN t.id ELSE 1].role # t.role

\* the tokens jwt.verify may refuse: signed by another secret, no JWT at all,
\* or a token of the service, as issued or past its expiry
Refusable == {Foreign, Malformed} \cup issued \cup { Expired(t) : t \in issued }

\* what is sent when verifyToken has thrown its error
InvalidTokenBody == errorHandler(AppError("Invalid or expired token", 401, "userService.js:411"))

\* C16: verifyToken fails with the same error, and the request is answered
\* with the same body, whether the token is expired, wrongly signed or
\* malformed.
C16_OneTokenError ==
    /\ \A t \in Refusable :
          jwtVerifyError(t, cfg.secret) # "" =>
              /\ ~verifyToken(t).ok
              /\ errorHandler(verifyToken(t).err) = InvalidTokenBody
    /\ (/\ resp.op \in {"getProfile", "getAllUsers", "getUserById"}
        /\ resp.req.scheme = "Bearer "
        /\ resp.req.userId = 0) => Body(resp) = InvalidTokenBody

\* a refused request, in a state where each of the three kinds can be sent
C16_Witness ==
    /\ resp.op = "getProfile" /\ resp.error = "Invalid or expired token"
    /\ jwtVerifyError(Foreign, cfg.secret) = "invalid signature"
    /\ jwtVerifyError(Malformed, cfg.secret) = "jwt malformed"
    /\ \E t \in issued : jwtVerifyError(Expired(t), cfg.secret) = "jwt expired"

\* the last request was a Login that named a deactivated record
DeactivatedLogin ==
    /\ resp.op = "login"
    /\ LoginRecord # 0
    /\ ~users[IF LoginRecord = 0 THEN 1 ELSE LoginRecord].isActive

\* C17: for a deactivated account, a Login with a password the hash matches
\* is answered 403 without tokens, and a Login with a password it does not
\* match is answered as for an active account: 401, the same body.
C17_LoginCheckOrder ==
    DeactivatedLogin =>
        /\ comparePassword(users[LoginRecord], resp.req.password) = "true" =>
              (resp.status = 403 /\ ~resp.success /\ resp.tokens = NoTokens)
        /\ comparePassword(users[LoginRecord], resp.req.password) = "false" =>
              Body(resp) = errorHandler(AppError("Invalid email or password", 401,
                                                 "userService.js:124"))

C17_Witness ==
    /\ DeactivatedLogin
    /\ resp.status = 403 /\ resp.error = "Account is deactivated"
    /\ resp.req.password = plain[IF LoginRecord = 0 THEN 1 ELSE LoginRecord]

\* the last request went to one of the admin routes
AdminRoute == resp.op \in {"getAllUsers", "getUserById"}

\* C18: an admin route answers with user data only a request whose verified
\* token has role admin; a verified token with another role gets 403, a
\* request without a verified token 401, and neither gets user data.
C18_AdminOnly ==
    AdminRoute =>
        /\ (resp.success \/ resp.userFields # {}) =>
              (resp.req.userId # 0 /\ resp.req.role = "admin")
        /\ (resp.req.userId # 0 /\ resp.req.role # "admin") =>
              (resp.status = 403 /\ ~resp.success /\ resp.userFields = {})
        /\ resp.req.userId = 0 =>
              (resp.status = 401 /\ ~resp.success /\ resp.userFields = {})

\* a student's valid token refused, while the service has issued an admin token
C18_Witness ==
    /\ AdminRoute
    /\ resp.status = 403 /\ resp.error = "Insufficient permissions"
    /\ resp.req.role = "student"
    /\ \E t \in issued : t.role = "admin"

\* what authenticate hands to next for a request that presents no credential
NoTokenProvided ==
    [ok |-> FALSE, decoded |-> NoToken,
     err |-> AppError("No token provided", 401, "authMiddleware.js:38")]

\* C19: a request without the header, or whose header does not start with
\* "Bearer ", is refused with 'No token provided' whatever follows the
\* prefix, a token of the service included, and not with the verifier's error.
C19_NoCredential ==
    /\ \A h \in Presented :
          (h = NoHeader \/ h.scheme # "Bearer ") => authenticate(h) = NoTokenProvided
    /\ (/\ resp.op \in {"getProfile", "getAllUsers", "getUserById"}
        /\ resp.req.scheme # "Bearer ")
       => (/\ Body(resp) = errorHandler(NoTokenProvided.err)
           /\ resp.error # "Invalid or expired token")

\* a request refused for its prefix while the service has tokens it would accept
C19_Witness ==
    /\ resp.op = "getProfile"
    /\ resp.req.scheme \in OtherSchemes
    /\ resp.error = "No token provided"
    /\ \E t \in issued : jwtVerify(t, cfg.secret)

\* C20: a failed request is answered with success false and a message; the
\* status is that of the AppError, or 500 with the generic message and none
\* of the text of the error underneath; outside development there is no stack.
C20_ErrorResponses ==
    ~resp.success =>
        /\ resp.error # ""
        /\ resp.status \in {400, 401, 403, 404, 409, 500}
        /\ resp.status = 500 => resp.error = "Internal Server Error"
        /\ cfg.env # "development" => resp.stack = ""

\* the request that response r answers has a body its route's schema refuses
BodyFails(r) ==
    CASE r.op = "register" ->
            ~registerSchema([email |-> r.req.email, password |-> r.req.password,
                             username |-> r.req.username, role |-> "student"])
      [] r.op = "login" ->
            ~loginSchema([email |-> r.req.email, password |-> r.req.password])
      [] r.op = "updateProfile" ->
            ~updateProfileSchema([keys |-> IF r.req.username = NoName THEN {} ELSE {"username"},
                                  username |-> r.req.username])
      [] r.op = "changePassword" ->
            ~changePasswordSchema([currentPassword |-> r.req.password,
                                   newPassword |-> r.req.newPassword])
      [] OTHER -> FALSE

\* the answer of validate, and nothing done by a controller
Refused400(r) == r.status = 400 /\ ~r.success /\ r.details /\ r.error = "Validation failed"

\* C21 as stated: every Register, Login, updateProfile or changePassword
\* request whose body fails its schema is answered 400 with success false,
\* and no record is created or modified.
C21_InvalidBodyRefused ==
    [][(reqs' = reqs + 1 /\ BodyFails(resp'))
       => (Refused400(resp') /\ users' = users /\ issued' = issued /\ plain' = plain)]_vars

\* C21: such a request is answered 400 with success false when it reaches
\* validate, which on PUT /profile and POST /change-password comes after
\* authenticate; a request that authenticate refuses is answered 401. In both
\* cases no record is created or modified.
C21_InvalidBodyRefusedOnceAuthenticated ==
    [][(reqs' = reqs + 1 /\ BodyFails(resp'))
       => (/\ users' = users /\ issued' = issued /\ plain' = plain
           /\ ~resp'.success
           /\ IF resp'.op \in {"register", "login"} \/ resp'.req.userId # 0
              THEN Refused400(resp')
              ELSE resp'.status = 401)]_vars

\* an authenticated PUT /profile refused for its username, the record intact
C21_Witness ==
    /\ resp.op = "updateProfile"
    /\ resp.req.userId \in DOMAIN users
    /\ resp.req.username = NameBad
    /\ Refused400(resp)
    /\ users[IF resp.req.userId \in DOMAIN users THEN resp.req.userId ELSE 1].username # NameBad

\* C22: whatever the order in which concurrent registrations and profile
\* updates check and write, no two records have the same username, and a
\* registration without a username is never refused for its username.
C22_UniqueUsernames ==
    /\ \A i \in DOMAIN users, j \in DOMAIN users :
          (i # j /\ users[i].username # NoName) => users[i].username # users[j].username
    /\ (resp.op = "register" /\ resp.req.username = NoName) =>
          resp.error \notin {"Username already taken", "username already exists"}

\* a profile update lost the race for its username to a registration and
\* left its record without a username
C22_Witness ==
    /\ resp.op = "updateProfile"
    /\ resp.error = "username already exists"
    /\ \E i \in DOMAIN users, j \in DOMAIN users :
          /\ users[i].username = resp.req.username
          /\ users[j].username = NoName

C24_UpdateOnlySchemaFields ==
    [][(resp'.op = "updateProfile" /\ reqs' = reqs + 1) =>
          \A i \in DOMAIN users :
              /\ i \in DOMAIN users'
              /\ \A f \in {"role", "isActive", "email", "password", "refreshTokens"} :
                    users'[i][f] = users[i][f]]_vars

\* C25: the password of every stored record is a bcrypt hash, never a text
\* as a caller sent it.
C25_HashAtRest ==
    \A i \in DOMAIN users : users[i].password.kind = "bcrypt"

\* C26: no save of Register, Login or token issuance changes a stored hash:
\* each record's password is the hash, made once, of the plaintext it was
\* registered with, and that plaintext verifies after every such save.
C26_HashedOnce ==
    [][/\ \A i \in DOMAIN users :
             i \in DOMAIN users' /\ users'[i].password = users[i].password
       /\ \A i \in DOMAIN users' :
             /\ users'[i].password = bcryptHash(plain'[i], users'[i].password.salt)
             /\ comparePassword(users'[i], plain'[i]) = "true"]_vars

\* a record saved five times since its password was hashed: twice by Register,
\* twice by each of two Logins, the last of them just answered
C26_Witness ==
    /\ resp.op = "login" /\ resp.success
    /\ \E i \in DOMAIN users :
          /\ i = resp.tokens.accessToken.id
          /\ users[i].lastLogin = 2 /\ Len(users[i].refreshTokens) = 3
          /\ comparePassword(users[i], resp.req.password) = "true"

\* C27: a Register whose email and whose username are both stored already is
\* refused with 409 'Email already registered', never with the username's
\* message, and writes nothing.
C27_EmailBeforeUsername ==
    [][(/\ resp'.op = "register" /\ reqs' = reqs + 1
        /\ ~BodyFails(resp')
        /\ findOneByEmail(users, resp'.req.email) # 0
        /\ resp'.req.username # NoName
        /\ findOneByUsername(users, resp'.req.username, 0) # 0)
       => (/\ resp'.status = 409
           /\ resp'.error = "Email already registered"
           /\ users' = users)]_vars

\* the refused request's email belongs to one record, its username to another
C27_Witness ==
    /\ resp.op = "register" /\ resp.error = "Email already registered"
    /\ resp.req.username = NameU
    /\ \E i \in DOMAIN users, j \in DOMAIN users :
          /\ i # j
          /\ users[i].email = ToLower(resp.req.email)
          /\ users[j].username = NameU

\* C28: a successful ChangePassword changes the password hash of the caller's
\* record and no other field of any record; the new password verifies
\* against the new hash, and every token that authenticate accepted before
\* the change is still an issued token under the same secrets after it.
C28_ChangePasswordFrame ==
    [][(resp'.op = "changePassword" /\ resp'.success /\ reqs' = reqs + 1) =>
          /\ DOMAIN users' = DOMAIN users
          /\ \A i \in DOMAIN users : \A f \in DOMAIN users[i] :
                (i # resp'.req.userId \/ f # "password") => users'[i][f] = users[i][f]
          /\ resp'.req.userId \in DOMAIN users
          /\ users'[resp'.req.userId].password.kind = "bcrypt"
          /\ comparePassword(users'[resp'.req.userId], resp'.req.newPassword) = "true"
          /\ issued' = issued /\ cfg' = cfg
          /\ \A t \in issued : authenticate(Bearer(t)).ok => verifyToken(t).decoded = t]_vars

\* a password changed on an account that has logged in: its refresh tokens
\* are stored and the access token of before the change is accepted
C28_Witness ==
    /\ resp.op = "changePassword" /\ resp.success
    /\ resp.req.password # resp.req.newPassword
    /\ \E i \in DOMAIN users :
          /\ i = resp.req.userId
          /\ users[i].lastLogin = 1 /\ Len(users[i].refreshTokens) = 2
          /\ \E t \in issued : t.id = i /\ authenticate(Bearer(t)).ok

\* C29: a Login answered 401 or 403 changes no record, lastLogin and
\* refreshTokens included, and issues no token.
C29_FailedLoginFrame ==
    [][(resp'.op = "login" /\ reqs' = reqs + 1 /\ resp'.status \in {401, 403}) =>
          /\ users' = users
          /\ issued' = issued
          /\ resp'.tokens = NoTokens]_vars

\* a Login with the right password refused because its account was deleted:
\* the record has the one refresh token of its registration and no lastLogin
C29_Witness ==
    /\ resp.op = "login" /\ resp.status = 403
    /\ LoginRecord # 0
    /\ users[IF LoginRecord = 0 THEN 1 ELSE LoginRecord].lastLogin = 0
    /\ Len(users[IF LoginRecord = 0 THEN 1 ELSE LoginRecord].refreshTokens) = 1
    /\ \E t \in issued : t.id = LoginRecord

\* C30: whatever the order in which concurrent logins and token issuances
\* read and write, no write drops an entry of a refreshTokens list, and every
\* call that returns a token pair has added its refresh token as one more
\* entry to the list the store held.
C30_NoLostToken ==
    [][/\ \A i \in DOMAIN users :
             /\ i \in DOMAIN users'
             /\ \A k \in DOMAIN users[i].refreshTokens :
                   /\ k \in DOMAIN users'[i].refreshTokens
                   /\ users'[i].refreshTokens[k] = users[i].refreshTokens[k]
       /\ (resp'.tokens # NoTokens /\ Len(calls') < Len(calls)) =>
             \E i \in DOMAIN users :
                 /\ i = resp'.tokens.refreshToken.id
                 /\ users'[i].refreshTokens = Append(users[i].refreshTokens,
                                                     resp'.tokens.refreshToken)]_vars

\* two logins of one account that both read the record before either wrote
\* (both stamped the same lastLogin) have both returned: three entries
C30_Witness ==
    /\ resp.op = "login" /\ resp.success
    /\ calls = <<>>
    /\ \E i \in DOMAIN users :
          /\ i = resp.tokens.refreshToken.id
          /\ users[i].lastLogin = 1
          /\ Len(users[i].refreshTokens) = 3
====
